---------------------------- MODULE Spec2Model ----------------------------
(***************************************************************************)
(* Model of lessons/day-44-window-splits/practice/code_main.py:            *)
(* WindowPracticeApp (config loading, logging, the file transformer, the   *)
(* file analyzer, the batch analysis runner, the result saver and the      *)
(* interactive command loop) and main().                                   *)
(*                                                                         *)
(* Text is a sequence of characters; a character is a one-element name:    *)
(* "LF" is '\n', "CR" is '\r', "FF" is '\f', "sz" is the sharp s U+00DF.   *)
(* A path or a command line is a sequence of atoms: pieces of text that    *)
(* the code never looks into ("data/", "a", ".txt", "quit", " ", ...).     *)
(***************************************************************************)
EXTENDS Integers, Sequences, FiniteSets, TLC

(***************************************************************************)
(* Bounds                                                                  *)
(***************************************************************************)
\* longest file content enumerated by SpecText
MaxLen == 4
\* number of lines the interactive loop reads in one session
MaxCmds == 2

(***************************************************************************)
(* Text: str.upper, str.lower, str.split, str.splitlines, str.replace,     *)
(* str.startswith and text-mode file I/O                                   *)
(***************************************************************************)
\* characters SpecText builds file contents from
Alphabet == {"a", "B", " ", "LF", "CR", "FF", "sz"}

\* the content "a b\nc"
ExampleContent == <<"a", " ", "b", "LF", "c">>

\* str.isspace characters (the ones split() separates on)
IsSpace(ch) == ch \in {" ", "LF", "CR", "FF", "TAB"}

\* line boundaries of str.splitlines, CR LF counting as one
IsLineBreak(ch) == ch \in {"LF", "CR", "FF"}

\* os.linesep of the platform the script runs on (POSIX)
LineSep == <<"LF">>

\* str.upper of one character: a sequence, since U+00DF uppercases to "SS"
UpperChar(ch) ==
    CASE ch = "a" -> <<"A">>
      [] ch = "b" -> <<"B">>
      [] ch = "c" -> <<"C">>
      [] ch = "sz" -> <<"S", "S">>
      [] OTHER -> <<ch>>

RECURSIVE StrUpperNoExpand(_)
\* an upper() that maps character by character and drops what does not fit
StrUpperNoExpand(s) ==
    IF s = <<>> THEN <<>>
    ELSE <<UpperChar(Head(s))[1]>> \o StrUpperNoExpand(Tail(s))

RECURSIVE StrUpper(_)
\* data.upper()
StrUpper(s) ==
    IF s = <<>> THEN <<>>
    ELSE UpperChar(Head(s)) \o StrUpper(Tail(s))

\* str.lower of one atom of a command line
LowerAtom(a) ==
    CASE a = "QUIT" -> "quit"
      [] a = "Quit" -> "quit"
      [] a = "ANALYZE" -> "analyze"
      [] a = "PROCESS" -> "process"
      [] a = "B" -> "b"
      [] OTHER -> a

\* a comparison that forgot to fold the case
StrLowerNone(s) == s

\* command.lower()
StrLower(s) == [i \in 1..Len(s) |-> LowerAtom(s[i])]

\* s.startswith(word), word being a single atom
StartsWith(s, word) == Len(s) >= 1 /\ s[1] = word

RECURSIVE SplitFrom(_, _, _)
\* the scan of str.split(): cur is the token being collected
SplitFrom(s, cur, acc) ==
    IF s = <<>>
    THEN IF cur = <<>> THEN acc ELSE Append(acc, cur)
    ELSE IF IsSpace(Head(s))
         THEN SplitFrom(Tail(s), <<>>, IF cur = <<>> THEN acc ELSE Append(acc, cur))
         ELSE SplitFrom(Tail(s), Append(cur, Head(s)), acc)

\* s.split(): the whitespace-delimited tokens
StrSplit(s) == SplitFrom(s, <<>>, <<>>)

RECURSIVE SplitLinesFrom(_, _, _, _)
\* the scan of str.splitlines(): open says whether a line is being collected
SplitLinesFrom(s, cur, open, acc) ==
    IF s = <<>>
    THEN IF open THEN Append(acc, cur) ELSE acc
    ELSE IF IsLineBreak(Head(s))
         THEN IF Head(s) = "CR" /\ Len(s) >= 2 /\ s[2] = "LF"
              THEN SplitLinesFrom(SubSeq(s, 3, Len(s)), <<>>, FALSE, Append(acc, cur))
              ELSE SplitLinesFrom(Tail(s), <<>>, FALSE, Append(acc, cur))
         ELSE SplitLinesFrom(Tail(s), Append(cur, Head(s)), TRUE, acc)

\* a line count by split('\n'): one more than the number of LF
SplitOnLF(s) ==
    [i \in 1..(Cardinality({k \in 1..Len(s) : s[k] = "LF"}) + 1) |-> <<>>]

\* content.splitlines()
StrSplitLines(s) == SplitLinesFrom(s, <<>>, FALSE, <<>>)

RECURSIVE ReadText(_)
\* f.read() of a file opened with open(path, 'r'): universal newlines,
\* every CR LF and every lone CR is read as LF
ReadText(raw) ==
    IF raw = <<>> THEN <<>>
    ELSE IF Head(raw) = "CR"
         THEN IF Len(raw) >= 2 /\ raw[2] = "LF"
              THEN <<"LF">> \o ReadText(SubSeq(raw, 3, Len(raw)))
              ELSE <<"LF">> \o ReadText(Tail(raw))
         ELSE <<Head(raw)>> \o ReadText(Tail(raw))

RECURSIVE WriteText(_)
\* f.write(text) to a file opened with open(path, 'w'): LF becomes os.linesep
WriteText(text) ==
    IF text = <<>> THEN <<>>
    ELSE (IF Head(text) = "LF" THEN LineSep ELSE <<Head(text)>>) \o WriteText(Tail(text))

RECURSIVE ReplaceTxt(_)
\* input_file.replace('.txt', '_processed.txt'): every occurrence
ReplaceTxt(name) ==
    IF name = <<>> THEN <<>>
    ELSE (IF Head(name) = ".txt" THEN <<"_processed", ".txt">> ELSE <<Head(name)>>)
         \o ReplaceTxt(Tail(name))

(***************************************************************************)
(* Files                                                                   *)
(***************************************************************************)
FileA == <<"data/", "a", ".txt">>
FileB == <<"data/", "b", ".txt">>
FileN == <<"data/", "n", ".md">>

\* the files a session starts with, and the ones process_data can create
InputPaths == {FileA, FileB, FileN}
Paths == InputPaths \cup {ReplaceTxt(p) : p \in InputPaths}

Absent == [st |-> "absent", data |-> <<>>]
File(content) == [st |-> "ok", data |-> content]
\* a directory entry that open() refuses (no permission, or a directory)
Denied == [st |-> "denied", data |-> <<>>]

\* contents of the files of a session
CrLfContent == <<"a", "CR", "LF", "sz">>
SampleContents == {ExampleContent, CrLfContent}

\* every content of at most MaxLen characters
RECURSIVE SeqsUpTo(_)
SeqsUpTo(n) ==
    IF n = 0 THEN {<<>>}
    ELSE LET shorter == SeqsUpTo(n - 1)
         IN shorter \cup {Append(s, ch) : s \in {t \in shorter : Len(t) = n - 1}, ch \in Alphabet}

BoundedContents == SeqsUpTo(MaxLen) \cup {ExampleContent}

\* a glob that forgot the pattern: every entry of the data directory
MatchesAny(p) == Len(p) >= 2 /\ p[1] = "data/"

\* Path('data').glob('*.txt'): an entry of the data directory whose name ends in .txt
Matches(p) == Len(p) >= 2 /\ p[1] = "data/" /\ p[Len(p)] = ".txt"

\* every ordering of a finite set, as the directory enumeration may return it
Orderings(S) ==
    {q \in [1..Cardinality(S) -> S] : \A i, j \in 1..Cardinality(S) : i # j => q[i] # q[j]}

(***************************************************************************)
(* Records                                                                 *)
(***************************************************************************)
NoExc == [type |-> "none", line |-> 0]
Exc(t, l) == [type |-> t, line |-> l]

\* what json.load returns for a well-formed config.json; {} is the empty mapping
ConfigDoc == {<<"name", "window-practice">>}

LogRec(level, msg, arg) == [level |-> level, msg |-> msg, arg |-> arg]

NoAnalysis == [file |-> <<>>, lines |-> 0, characters |-> 0, words |-> 0, timestamp |-> 0]

\* the dict built by analyze_file from the text it read
AnalysisOf(filepath, content, now) ==
    [file |-> filepath,
     lines |-> Len(StrSplitLines(content)),
     characters |-> Len(content),
     words |-> Len(StrSplit(content)),
     timestamp |-> now]

\* json.dump(results, f, indent=2): a list of objects, keys in insertion order
KeyOrder == <<"file", "lines", "characters", "words", "timestamp">>
JsonDump(results) == [i \in 1..Len(results) |-> [keys |-> KeyOrder, obj |-> results[i]]]

NoResultsFile == [exists |-> FALSE, entries |-> <<>>]

(***************************************************************************)
(* State                                                                   *)
(***************************************************************************)
VARIABLES
    pc,            \* the statement the process is at
    mode,          \* "none", "batch" or "interactive" ('--interactive' in sys.argv)
    loop,          \* the interactive loop: "NONE", "RUNNING", "TERMINATED"
    exc,           \* the exception that left the program, with the line that raised it
    configState,   \* config.json on disk: "valid", "missing", "malformed"
    dataDirExists, \* whether the directory data/ exists
    config,        \* self.config
    hasLogger,     \* whether self.logger has been assigned
    log,           \* the records handed to the logging sinks
    stdout,        \* what print() wrote
    fs,            \* the text files, by path
    resultsFile,   \* data/results.json
    command,       \* the line read by input()
    nread,         \* lines read so far
    input_file,    \* process_data: its argument
    data,          \* process_data: the text read
    output_file,   \* process_data: the derived path
    data_files,    \* run_analysis: the enumerated files
    idx,           \* run_analysis: position of the for loop in data_files
    results,       \* run_analysis: the list being built
    analysis,      \* analyze_file: the dict built last
    clock,         \* datetime.now()
    logMark,       \* length of the log when the current run_analysis started
    interruptedAt  \* where the process was when SIGINT arrived, "none" if it did not

envVars == <<configState, dataDirExists>>
appVars == <<config, hasLogger>>
loopVars == <<command, nread>>
pdVars == <<input_file, data, output_file>>
raVars == <<data_files, idx, results, analysis, clock, logMark>>
vars == <<pc, mode, loop, exc, envVars, appVars, log, stdout, fs, resultsFile,
          loopVars, pdVars, raVars, interruptedAt>>

Readable(p) == p \in Paths /\ fs[p].st = "ok"
Listed(p) == p \in Paths /\ fs[p].st # "absent"

\* the part of the log written since the current run_analysis started
RunLog == SubSeq(log, logMark + 1, Len(log))

InitLocals ==
    /\ mode = "none" /\ loop = "NONE" /\ exc = NoExc
    /\ log = <<>> /\ stdout = <<>>
    /\ resultsFile = NoResultsFile
    /\ command = <<>> /\ nread = 0
    /\ input_file = <<>> /\ data = <<>> /\ output_file = <<>>
    /\ data_files = <<>> /\ idx = 0 /\ results = <<>> /\ analysis = NoAnalysis
    /\ clock = 0 /\ logMark = 0
    /\ interruptedAt = "none"

\* the process has started and nothing has run yet; the disk is any of the
\* small file systems below
Init ==
    /\ pc = "init"
    /\ config = {} /\ hasLogger = FALSE
    /\ configState \in {"valid", "missing", "malformed"}
    /\ dataDirExists \in BOOLEAN
    /\ fs \in [Paths -> {Absent, Denied} \cup {File(c) : c \in SampleContents}]
    /\ dataDirExists = FALSE => \A p \in Paths : fs[p] = Absent
    /\ fs[FileA] \in {Absent, File(ExampleContent), File(CrLfContent)}
    /\ fs[FileB] \in {Absent, Denied, File(ExampleContent)}
    /\ fs[FileN] \in {Absent, File(CrLfContent)}
    /\ \A p \in Paths \ InputPaths : fs[p] = Absent
    /\ InitLocals

(***************************************************************************)
(* WindowPracticeApp.__init__, load_config, setup_logging                  *)
(***************************************************************************)
\* load_config followed by the rest of __init__.  A missing file is caught
\* (line 40) and reported through self.logger, which __init__ assigns only
\* after load_config has returned.
Construct ==
    /\ pc = "init"
    /\ IF configState = "valid"
       THEN /\ config' = ConfigDoc
            /\ hasLogger' = TRUE
            /\ pc' = "main"
            /\ UNCHANGED <<exc, log>>
       ELSE IF configState = "malformed"
       THEN /\ exc' = Exc("JSONDecodeError", 39)
            /\ pc' = "crashed"
            /\ UNCHANGED <<config, hasLogger, log>>
       ELSE IF hasLogger
       THEN /\ log' = Append(log, LogRec("ERROR", "Config file not found", <<"config.json">>))
            /\ config' = {}
            /\ hasLogger' = TRUE
            /\ pc' = "main"
            /\ UNCHANGED exc
       ELSE /\ exc' = Exc("AttributeError", 41)
            /\ pc' = "crashed"
            /\ UNCHANGED <<config, hasLogger, log>>
    /\ UNCHANGED <<mode, loop, envVars, stdout, fs, resultsFile, loopVars, pdVars,
                   raVars, interruptedAt>>

(***************************************************************************)
(* main                                                                    *)
(***************************************************************************)
Main(interactive) ==
    /\ pc = "main"
    /\ IF interactive
       THEN /\ mode' = "interactive"
            /\ stdout' = Append(stdout, "banner")
            /\ loop' = "RUNNING"
            /\ pc' = "prompt"
       ELSE /\ mode' = "batch"
            /\ pc' = "ra_start"
            /\ UNCHANGED <<stdout, loop>>
    /\ UNCHANGED <<exc, envVars, appVars, log, fs, resultsFile, loopVars, pdVars,
                   raVars, interruptedAt>>

(***************************************************************************)
(* How an exception leaves the running operation                           *)
(***************************************************************************)
\* an 'except' that catches everything
CaughtByBareExcept(t) == TRUE

\* 'except Exception' (line 105): KeyboardInterrupt derives from BaseException
CaughtByExceptException(t) == t # "KeyboardInterrupt"

\* An exception that no handler inside the operation catches.  In the
\* interactive loop the only handler is 'except KeyboardInterrupt' (line 184),
\* which prints and breaks; anything else leaves interactive_mode and main.
Propagate(t, l) ==
    IF mode = "interactive" /\ t = "KeyboardInterrupt"
    THEN /\ stdout' = Append(stdout, "Exiting...")
         /\ loop' = "TERMINATED"
         /\ pc' = "exited"
         /\ exc' = NoExc
    ELSE /\ stdout' = stdout
         /\ loop' = IF mode = "interactive" THEN "TERMINATED" ELSE loop
         /\ pc' = "crashed"
         /\ exc' = Exc(t, l)

(***************************************************************************)
(* interactive_mode and process_command                                    *)
(***************************************************************************)
Quit == <<"quit">>

\* the lines a user types
Commands ==
    {<<"quit">>, <<"QUIT">>, <<"Quit">>,
     <<"analyze">>, <<"analyze", "x">>, <<"ANALYZE">>,
     <<"process", " ">> \o FileA, <<"process", " ">> \o FileN,
     <<"process">>, <<"help">>}

\* input() returns a line; 'quit' in any casing breaks out of the loop,
\* any other line goes to process_command
ReadLine(line) ==
    /\ pc = "prompt"
    /\ nread < MaxCmds
    /\ command' = line
    /\ nread' = nread + 1
    /\ IF StrLower(line) = Quit
       THEN /\ loop' = "TERMINATED"
            /\ pc' = "exited"
       ELSE /\ pc' = "dispatch"
            /\ UNCHANGED loop
    /\ UNCHANGED <<mode, exc, envVars, appVars, log, stdout, fs, resultsFile, pdVars,
                   raVars, interruptedAt>>

\* input() at end of input raises EOFError, which interactive_mode does not catch
EndOfInput ==
    /\ pc = "prompt"
    /\ Propagate("EOFError", 177)
    /\ UNCHANGED <<mode, envVars, appVars, log, fs, resultsFile, loopVars, pdVars,
                   raVars, interruptedAt>>

\* process_command up to the call it dispatches to
ProcessCommand ==
    /\ pc = "dispatch"
    /\ log' = Append(log, LogRec("INFO", "Processing command", command))
    /\ IF StartsWith(command, "analyze")
       THEN /\ pc' = "ra_start"
            /\ UNCHANGED <<stdout, loop, exc, input_file>>
       ELSE IF StartsWith(command, "process")
       THEN IF Len(StrSplit(command)) # 2
            THEN /\ Propagate("ValueError", 198)
                 /\ UNCHANGED input_file
            ELSE /\ input_file' = StrSplit(command)[2]
                 /\ pc' = "pd_read"
                 /\ UNCHANGED <<stdout, loop, exc>>
       ELSE /\ stdout' = Append(stdout, "Unknown command")
            /\ pc' = "prompt"
            /\ UNCHANGED <<loop, exc, input_file>>
    /\ UNCHANGED <<mode, envVars, appVars, fs, resultsFile, loopVars, data, output_file,
                   raVars, interruptedAt>>

(***************************************************************************)
(* process_data                                                            *)
(***************************************************************************)
\* lines 68-72: log, open the input and read it
ProcessDataRead ==
    /\ pc = "pd_read"
    /\ log' = Append(log, LogRec("INFO", "Processing", input_file))
    /\ IF Readable(input_file)
       THEN /\ data' = ReadText(fs[input_file].data)
            /\ pc' = "pd_write"
            /\ UNCHANGED <<stdout, loop, exc>>
       ELSE /\ Propagate(IF Listed(input_file) THEN "PermissionError"
                                               ELSE "FileNotFoundError", 71)
            /\ UNCHANGED data
    /\ UNCHANGED <<mode, envVars, appVars, fs, resultsFile, loopVars, input_file,
                   output_file, raVars, interruptedAt>>

\* lines 75-82: uppercase, derive the output path, write it, log
ProcessDataWrite ==
    /\ pc = "pd_write"
    /\ output_file' = ReplaceTxt(input_file)
    /\ fs' = [fs EXCEPT ![ReplaceTxt(input_file)] = File(WriteText(StrUpper(data)))]
    /\ log' = Append(log, LogRec("INFO", "Processed data written to", ReplaceTxt(input_file)))
    /\ pc' = "pd_return"
    /\ UNCHANGED <<mode, loop, exc, envVars, appVars, stdout, resultsFile, loopVars,
                   input_file, data, raVars, interruptedAt>>

\* line 83, and process_command returning to the loop
ProcessDataReturn ==
    /\ pc = "pd_return"
    /\ pc' = "prompt"
    /\ UNCHANGED <<mode, loop, exc, envVars, appVars, log, stdout, fs, resultsFile,
                   loopVars, pdVars, raVars, interruptedAt>>

(***************************************************************************)
(* run_analysis, analyze_file, save_results                                *)
(***************************************************************************)
\* a loop entry that returns early when nothing was found
AfterGlobEarlyReturn(files) == IF files = <<>> THEN "ra_return" ELSE "scan"

\* line 101: with nothing to iterate over the for loop falls through to line 109
AfterGlob(files) == IF files = <<>> THEN "save" ELSE "scan"

\* a handler that records a placeholder for the file it could not analyze
ResultsAfterFailurePlaceholder(res, f) == Append(res, AnalysisOf(f, <<>>, 0))

\* lines 105-106: the handler logs and appends nothing
ResultsAfterFailure(res, f) == res

\* lines 94-100: log, enumerate data/*.txt in directory order, log the count
RunAnalysisStart ==
    /\ pc = "ra_start"
    /\ \E listing \in Orderings({p \in Paths : Listed(p) /\ Matches(p)}) :
          /\ data_files' = listing
          /\ log' = log \o <<LogRec("INFO", "Starting analysis workflow", <<>>),
                             LogRec("INFO", "Found data files", <<Len(listing)>>)>>
          /\ pc' = AfterGlob(listing)
    /\ logMark' = Len(log)
    /\ results' = <<>>
    /\ idx' = 1
    /\ UNCHANGED <<mode, loop, exc, envVars, appVars, stdout, fs, resultsFile, loopVars,
                   pdVars, analysis, clock, interruptedAt>>

\* one iteration of the for loop (lines 101-106) with the call of analyze_file
AnalyzeNext ==
    /\ pc = "scan"
    /\ LET f == data_files[idx] IN
       IF Readable(f)
       THEN /\ analysis' = AnalysisOf(f, ReadText(fs[f].data), clock)
            /\ clock' = clock + 1
            /\ log' = Append(log, LogRec("DEBUG", "Analysis complete for", f))
            /\ results' = Append(results, AnalysisOf(f, ReadText(fs[f].data), clock))
       ELSE /\ log' = Append(log, LogRec("ERROR", "Error processing", f))
            /\ results' = ResultsAfterFailure(results, f)
            /\ UNCHANGED <<analysis, clock>>
    /\ idx' = idx + 1
    /\ pc' = IF idx = Len(data_files) THEN "save" ELSE "scan"
    /\ UNCHANGED <<mode, loop, exc, envVars, appVars, stdout, fs, resultsFile, loopVars,
                   pdVars, data_files, logMark, interruptedAt>>

\* save_results: data/results.json is opened for writing and the list dumped
SaveResults ==
    /\ pc = "save"
    /\ IF dataDirExists
       THEN /\ resultsFile' = [exists |-> TRUE, entries |-> JsonDump(results)]
            /\ log' = Append(log, LogRec("INFO", "Results saved to", <<"data/", "results", ".json">>))
            /\ pc' = "ra_return"
            /\ UNCHANGED <<stdout, loop, exc>>
       ELSE /\ Propagate("FileNotFoundError", 141)
            /\ UNCHANGED <<resultsFile, log>>
    /\ UNCHANGED <<mode, envVars, appVars, fs, loopVars, pdVars, raVars, interruptedAt>>

\* line 110: back in process_command, or in main, which then ends
RunAnalysisReturn ==
    /\ pc = "ra_return"
    /\ pc' = IF mode = "interactive" THEN "prompt" ELSE "exited"
    /\ UNCHANGED <<mode, loop, exc, envVars, appVars, log, stdout, fs, resultsFile,
                   loopVars, pdVars, raVars, interruptedAt>>

(***************************************************************************)
(* SIGINT                                                                  *)
(***************************************************************************)
\* the line KeyboardInterrupt is raised at, for each place the process can be
LineOf(at) ==
    CASE at = "prompt" -> 177
      [] at = "dispatch" -> 193
      [] at = "pd_read" -> 71
      [] at = "pd_write" -> 79
      [] at = "pd_return" -> 83
      [] at = "ra_start" -> 97
      [] at = "scan" -> 103
      [] at = "save" -> 141
      [] OTHER -> 110

\* The terminal delivers SIGINT while the loop waits in input() or while a
\* command (or the batch run) executes.  Inside the try of run_analysis the
\* handler of line 105 is asked first.
Interrupt ==
    /\ interruptedAt = "none"
    /\ pc \in {"prompt", "dispatch", "pd_read", "pd_write", "pd_return",
               "ra_start", "scan", "save", "ra_return"}
    /\ interruptedAt' = pc
    /\ IF pc = "scan" /\ CaughtByExceptException("KeyboardInterrupt")
       THEN /\ log' = Append(log, LogRec("ERROR", "Error processing", data_files[idx]))
            /\ results' = ResultsAfterFailure(results, data_files[idx])
            /\ idx' = idx + 1
            /\ pc' = IF idx = Len(data_files) THEN "save" ELSE "scan"
            /\ UNCHANGED <<stdout, loop, exc>>
       ELSE /\ Propagate("KeyboardInterrupt", LineOf(pc))
            /\ UNCHANGED <<log, results, idx>>
    /\ UNCHANGED <<mode, envVars, appVars, fs, resultsFile, loopVars, pdVars,
                   data_files, analysis, clock, logMark>>

Next ==
    \/ Construct
    \/ \E interactive \in BOOLEAN : Main(interactive)
    \/ \E line \in Commands : ReadLine(line)
    \/ EndOfInput
    \/ ProcessCommand
    \/ ProcessDataRead
    \/ ProcessDataWrite
    \/ ProcessDataReturn
    \/ RunAnalysisStart
    \/ AnalyzeNext
    \/ SaveResults
    \/ RunAnalysisReturn
    \/ Interrupt

Spec == Init /\ [][Next]_vars

(***************************************************************************)
(* The transformer and the analyzer on every bounded file content          *)
(***************************************************************************)
\* the names process_data and analyze_file are applied to
TextNames == {FileA, FileN}

\* the application is constructed and one file of arbitrary content exists
InitText ==
    /\ pc = "t_idle"
    /\ config = ConfigDoc /\ hasLogger = TRUE
    /\ configState = "valid" /\ dataDirExists = TRUE
    /\ \E name \in TextNames, content \in BoundedContents :
          /\ fs = [p \in Paths |-> IF p = name THEN File(content) ELSE Absent]
          /\ input_file = name
    /\ mode = "none" /\ loop = "NONE" /\ exc = NoExc
    /\ log = <<>> /\ stdout = <<>>
    /\ resultsFile = NoResultsFile
    /\ command = <<>> /\ nread = 0
    /\ data = <<>> /\ output_file = <<>>
    /\ data_files = <<>> /\ idx = 0 /\ results = <<>> /\ analysis = NoAnalysis
    /\ clock = 0 /\ logMark = 0
    /\ interruptedAt = "none"

\* process_data(input_file), lines 68-83, on a readable file
TextProcessData ==
    /\ pc = "t_idle"
    /\ data' = ReadText(fs[input_file].data)
    /\ output_file' = ReplaceTxt(input_file)
    /\ fs' = [fs EXCEPT ![ReplaceTxt(input_file)] =
                 File(WriteText(StrUpper(ReadText(fs[input_file].data))))]
    /\ log' = log \o <<LogRec("INFO", "Processing", input_file),
                       LogRec("INFO", "Processed data written to", ReplaceTxt(input_file))>>
    /\ pc' = "t_processed"
    /\ UNCHANGED <<mode, loop, exc, envVars, appVars, stdout, resultsFile, loopVars,
                   input_file, raVars, interruptedAt>>

\* analyze_file(input_file), lines 121-133, on a readable file
TextAnalyzeFile ==
    /\ pc = "t_idle"
    /\ analysis' = AnalysisOf(input_file, ReadText(fs[input_file].data), clock)
    /\ clock' = clock + 1
    /\ log' = Append(log, LogRec("DEBUG", "Analysis complete for", input_file))
    /\ pc' = "t_analyzed"
    /\ UNCHANGED <<mode, loop, exc, envVars, appVars, stdout, fs, resultsFile, loopVars,
                   pdVars, data_files, idx, results, logMark, interruptedAt>>

NextText == TextProcessData \/ TextAnalyzeFile

SpecText == InitText /\ [][NextText]_vars

(***************************************************************************)
(* Properties                                                              *)
(***************************************************************************)
ErrorsFor(f) ==
    Cardinality({i \in 1..Len(RunLog) :
        RunLog[i].level = "ERROR" /\ RunLog[i].msg = "Error processing" /\ RunLog[i].arg = f})

SuccessesFor(f) ==
    Cardinality({i \in 1..Len(RunLog) :
        RunLog[i].msg = "Analysis complete for" /\ RunLog[i].arg = f})

RecordsFor(f) == {i \in 1..Len(results) : results[i].file = f}

ConfigErrors ==
    Cardinality({i \in 1..Len(log) :
        log[i].level = "ERROR" /\ log[i].msg = "Config file not found"})

IsQuitAnyCase(line) == line \in {<<"quit">>, <<"QUIT">>, <<"Quit">>}

EndsInTxt(p) == p[1] = "data/" /\ p[Len(p)] = ".txt"

\* C1: constructing the application with a configuration path that does not
\* exist never raises; the configuration is the empty mapping and exactly
\* one error-level message has been logged.
C1_MissingConfigRecovered ==
    (configState = "missing" /\ pc # "init") =>
        /\ pc # "crashed"
        /\ exc = NoExc
        /\ config = {}
        /\ ConfigErrors = 1

\* C2: in a batch run every file the loop has passed either was read and has
\* exactly one record and no error entry, or failed and has no record and
\* exactly one error-level entry; every record belongs to a file that was
\* read successfully; a failing file never ends the run.
C2_FailedFilesSkipped ==
    /\ \A k \in 1..(idx - 1) :
          LET f == data_files[k] IN
          \/ ErrorsFor(f) = 0 /\ Cardinality(RecordsFor(f)) = 1 /\ SuccessesFor(f) = 1
          \/ ErrorsFor(f) = 1 /\ RecordsFor(f) = {} /\ SuccessesFor(f) = 0
    /\ \A i \in 1..Len(results) :
          /\ \E k \in 1..(idx - 1) : data_files[k] = results[i].file
          /\ SuccessesFor(results[i].file) = 1
    /\ Len(results) = Cardinality({k \in 1..(idx - 1) : ErrorsFor(data_files[k]) = 0})
    /\ pc = "ra_return" => idx = Len(data_files) + 1
    /\ exc.line = 103 => exc.type = "KeyboardInterrupt"

C2_Witness ==
    /\ pc = "ra_return"
    /\ Len(data_files) >= 2
    /\ Len(results) >= 1
    /\ \E k \in 1..Len(data_files) : ErrorsFor(data_files[k]) = 1 /\ RecordsFor(data_files[k]) = {}

\* C3: when every matching file is readable, the run returns exactly one
\* record per *.txt entry of the data directory, in enumeration order, the
\* results file holds those entries in that order, and no other file has a
\* record.
C3_OneRecordPerMatch ==
    (pc = "ra_return" /\ \A k \in 1..Len(data_files) : ErrorsFor(data_files[k]) = 0) =>
        /\ {data_files[k] : k \in 1..Len(data_files)} = {p \in Paths : fs[p].st # "absent" /\ EndsInTxt(p)}
        /\ Len(results) = Len(data_files)
        /\ \A i \in 1..Len(results) : results[i].file = data_files[i]
        /\ resultsFile.exists
        /\ Len(resultsFile.entries) = Len(data_files)
        /\ \A i \in 1..Len(results) :
              /\ resultsFile.entries[i].obj = results[i]
              /\ resultsFile.entries[i].keys = <<"file", "lines", "characters", "words", "timestamp">>

C3_Witness ==
    /\ pc = "ra_return"
    /\ Len(results) >= 2
    /\ Len(results) = Len(data_files)
    /\ fs[FileN].st = "ok"
    /\ Len(resultsFile.entries) = Len(results)

\* C4: a line equal to 'quit' in any letter casing ends the loop normally and
\* is never handed to process_command.
C4_QuitAnyCase ==
    /\ (nread > 0 /\ IsQuitAnyCase(command)) =>
          (loop = "TERMINATED" /\ pc = "exited" /\ exc = NoExc)
    /\ \A i \in 1..Len(log) :
          log[i].msg = "Processing command" => ~IsQuitAnyCase(log[i].arg)

C4_Witness ==
    /\ command = <<"QUIT">>
    /\ nread = 2
    /\ loop = "TERMINATED"
    /\ interruptedAt = "none"

\* a line C5 speaks about: 'analyze...', 'process' with exactly one argument,
\* or a line that is neither
Covered(line) ==
    \/ StartsWith(line, "analyze")
    \/ StartsWith(line, "process") /\ Len(StrSplit(line)) = 2
    \/ ~StartsWith(line, "analyze") /\ ~StartsWith(line, "process")

\* C5: after every non-quit line (analyze..., process with one file name, or
\* anything else) the loop is still RUNNING, whether or not the dispatched
\* operation succeeded.
C5_LoopStaysRunning ==
    (mode = "interactive" /\ nread > 0 /\ ~IsQuitAnyCase(command) /\ Covered(command)
        /\ interruptedAt = "none" /\ exc.type # "EOFError") =>
        loop = "RUNNING"

\* C6: with no *.txt entry in an existing data directory, run_analysis
\* returns an empty list, raises nothing, and has written a results file
\* holding an empty sequence.
C6_EmptyRunWritesEmptyFile ==
    /\ (pc = "ra_return" /\ data_files = <<>>) =>
          /\ results = <<>>
          /\ resultsFile = [exists |-> TRUE, entries |-> <<>>]
    /\ (dataDirExists /\ data_files = <<>> /\ exc.line \in 94..144) =>
          exc.type = "KeyboardInterrupt"

C6_Witness ==
    /\ pc = "ra_return"
    /\ data_files = <<>>
    /\ fs[FileN].st = "ok"
    /\ resultsFile.exists
    /\ resultsFile.entries = <<>>

\* C7: SIGINT received while the interactive loop is RUNNING, waiting for
\* input or inside a command, prints the message and ends the loop as a
\* normal exit; no exception leaves interactive_mode.
C7_InterruptIsNormalExit ==
    (mode = "interactive" /\ interruptedAt # "none") =>
        /\ loop = "TERMINATED"
        /\ pc = "exited"
        /\ exc = NoExc
        /\ stdout # <<>> /\ stdout[Len(stdout)] = "Exiting..."

C7_Witness ==
    /\ mode = "interactive"
    /\ interruptedAt = "scan"
    /\ idx = 2
    /\ loop = "TERMINATED"

CrLfAt(raw, i) == raw[i] = "CR" /\ i < Len(raw) /\ raw[i + 1] = "LF"

NumCrLf(raw) == Cardinality({i \in 1..Len(raw) : CrLfAt(raw, i)})

NumSharpS(raw) == Cardinality({i \in 1..Len(raw) : raw[i] = "sz"})

\* what position i of the stored content contributes to the output
UpperAt(raw, i) ==
    IF CrLfAt(raw, i) THEN <<>>
    ELSE IF raw[i] = "CR" THEN <<"LF">>
    ELSE UpperChar(raw[i])

RECURSIVE ExpectedFrom(_, _)
ExpectedFrom(raw, i) ==
    IF i > Len(raw) THEN <<>> ELSE UpperAt(raw, i) \o ExpectedFrom(raw, i + 1)

\* C8 as stated: the output file holds the character-for-character uppercase
\* of the stored input content, of the same length.
C8_UppercaseSameLength ==
    [][(pc = "t_idle" /\ pc' = "t_processed") =>
          /\ fs'[output_file'].data = StrUpper(fs[input_file].data)
          /\ Len(fs'[output_file'].data) = Len(fs[input_file].data)]_vars

\* C8: the output file holds, in order and without truncation, the uppercase
\* of the input as text mode reads it: a CR LF pair or a lone CR of the file
\* appears as one LF, a sharp s as SS; its length is the input's minus the
\* CR LF pairs plus the sharp s characters.
C8_UppercaseOfTextRead ==
    [][(pc = "t_idle" /\ pc' = "t_processed") =>
          /\ fs'[output_file'].data = ExpectedFrom(fs[input_file].data, 1)
          /\ Len(fs'[output_file'].data) =
                Len(fs[input_file].data) - NumCrLf(fs[input_file].data)
                    + NumSharpS(fs[input_file].data)]_vars

C8_Witness ==
    /\ pc = "t_processed"
    /\ input_file = FileA
    /\ fs[FileA].data = <<"a", "CR", "LF", "sz">>
    /\ fs[output_file].data = <<"A", "LF", "S", "S">>

\* lines ended by LF, CR or CR LF; text after the last one is a line too
NewlineLines(raw) ==
    Cardinality({i \in 1..Len(raw) : raw[i] \in {"LF", "CR"} /\ ~CrLfAt(raw, i)})
        + (IF raw # <<>> /\ raw[Len(raw)] \notin {"LF", "CR"} THEN 1 ELSE 0)

\* lines as str.splitlines delimits them: FF ends a line as well
BoundaryLines(raw) ==
    Cardinality({i \in 1..Len(raw) : IsLineBreak(raw[i]) /\ ~CrLfAt(raw, i)})
        + (IF raw # <<>> /\ ~IsLineBreak(raw[Len(raw)]) THEN 1 ELSE 0)

\* positions where a whitespace-delimited token starts
TokenStarts(raw) ==
    {i \in 1..Len(raw) : ~IsSpace(raw[i]) /\ (i = 1 \/ IsSpace(raw[i - 1]))}

\* C9 as stated: lines is the number of newline-delimited lines, characters
\* the raw length of the file content, words the number of whitespace tokens.
C9_CountsOfRawContent ==
    pc = "t_analyzed" =>
        LET raw == fs[input_file].data IN
        /\ analysis.lines = NewlineLines(raw)
        /\ analysis.characters = Len(raw)
        /\ analysis.words = Cardinality(TokenStarts(raw))
        /\ raw = ExampleContent =>
              analysis.lines = 2 /\ analysis.characters = 5 /\ analysis.words = 3

\* C9: the counts are those of the content as text mode reads it: characters
\* is the stored length minus the CR LF pairs; lines counts the lines ended
\* by LF, CR, CR LF or FF plus an unterminated last one; words counts the
\* whitespace-delimited tokens; "a b\nc" gives 2, 5, 3; none is negative.
C9_CountsOfTextRead ==
    pc = "t_analyzed" =>
        LET raw == fs[input_file].data IN
        /\ analysis.lines = BoundaryLines(raw)
        /\ analysis.characters = Len(raw) - NumCrLf(raw)
        /\ analysis.words = Cardinality(TokenStarts(raw))
        /\ raw = ExampleContent =>
              analysis.lines = 2 /\ analysis.characters = 5 /\ analysis.words = 3
        /\ analysis.lines >= 0 /\ analysis.characters >= 0 /\ analysis.words >= 0
        /\ analysis.file = input_file

C9_Witness ==
    /\ pc = "t_analyzed"
    /\ fs[input_file].data = ExampleContent
    /\ analysis.lines = 2 /\ analysis.characters = 5 /\ analysis.words = 3

\* C10: process_data writes to a path different from its input and leaves
\* the content of the input file as it read it.
C10_OutputIsAnotherFile ==
    pc = "pd_return" =>
        /\ output_file # input_file
        /\ ReadText(fs[input_file].data) = data

=============================================================================
